---- MODULE Spec2Model ----
(***************************************************************************)
(* Dense linear solver of GoTools (LUDecomp_implementation.h): LUDecomp,  *)
(* LUsolveSystem, forwardSubstitution, backwardSubstitution.              *)
(*                                                                         *)
(* Numbers: the code computes in double.  The model computes in exact     *)
(* rationals <<num, den>> (den > 0, lowest terms), so that equalities of  *)
(* the form L*U = P*A are statements of exact arithmetic; rounding is not *)
(* modelled.  Indices are 0-based as in the source.                       *)
(***************************************************************************)
EXTENDS Integers, Sequences, FiniteSets, TLC

VARIABLES
    pc,        \* position inside LUsolveSystem / LUDecomp, or the substitution driver
    entry,     \* the function the caller entered: "LUsolveSystem" or "LUDecomp"
    n,         \* num_rows = num_cols = num_unknowns
    A0,        \* the matrix as passed by the caller (kept to state the contracts)
    b0,        \* the right-hand side as passed by the caller
    mat,       \* the matrix, decomposed in place
    perm,      \* permutation[0..n-1] of LUsolveSystem, filled by LUDecomp
    permWrites,\* the indices of perm written by the fill loop of LUDecomp
    parity,    \* bool& parity
    scaling,   \* std::vector<double> scaling of LUDecomp
    j,         \* column index of the Crout loop
    pivot_val, \* double pivot_val
    pivot_row, \* int pivot_row
    vec,       \* T* vec of LUsolveSystem (scalar T)
    err,       \* the exception that left LUDecomp, or "none"
    order,     \* evaluation order the build gives to  perm[k] = k++
    rowOf,     \* history: input row that now sits at each row position of mat
    nswaps,    \* history: number of row exchanges performed
    steps,     \* history: the phases of LUsolveSystem that have run, in order
    xvec,      \* std::vector<double>* x of the vector-valued substitutions
    xprev,     \* history: x before the last vector-valued substitution
    lastop,    \* history: the last vector-valued substitution called
    calls,     \* history: number of vector-valued substitutions called
    A_,        \* SolveCG: std::vector<double> A_, the nonzeros row by row
    nn_,       \* SolveCG: int nn_, number of unknowns
    np_,       \* SolveCG: int np_, number of nonzeros
    irow_,     \* SolveCG: std::vector<int> irow_, first slot of each row (nn_+1 entries)
    jcol_,     \* SolveCG: std::vector<int> jcol_, column of each slot
    tolerance_,      \* SolveCG: double tolerance_
    max_iterations_, \* SolveCG: int max_iterations_
    M_,        \* SolveCG: std::vector<double> M_, the RILU factors in the slots of A_
    omega_,    \* SolveCG: double omega_, relaxation parameter
    diagonal_, \* SolveCG: std::vector<int> diagonal_, slot of each diagonal element
    diagset_,  \* SolveCG: int diagset_
    sx,        \* argument sx of matrixProduct
    sy,        \* argument sy of matrixProduct
    ex,        \* argument ex of solve: initial guess in, solution out
    eb,        \* argument eb of solve
    status,    \* value returned by the last solve
    gmat,      \* history: the dense matrix the attached storage stands for
    syold,     \* history: sy before the last matrixProduct
    ex0,       \* history: ex as passed to the last solve
    iters,     \* history: CG iterations run by the last solve
    path,      \* history: the routine the last solve dispatched to
    attachNo,  \* history: number of attachMatrix calls
    precondNo, \* history: attachNo at the last precondRILU call, 0 if none
    cgop,      \* history: the last SolveCG operation called
    cgcalls,   \* history: number of SolveCG operations called
    cpstate,   \* closest-point search: "start", "seeded", "searching", "converged", "failed"
    curve,     \* the ParamCurve searched
    target,    \* const Point& pt
    tmin,      \* double tmin
    tmax,      \* double tmax
    seed,      \* double const *seed: <<>> for 0, <<t>> for a guess
    tcur,      \* the current iterate
    tbest,     \* the best parameter met so far
    nsteps,    \* refinement steps taken
    result,    \* the outputs clo_t, clo_pt, clo_dist once the search has ended
    space_crv_,          \* ProjectCurveAndCrossTan: the space curve to project
    crosstan_crv_,       \* ProjectCurveAndCrossTan: its cross tangent curve
    start_par_pt_,       \* required start point in the parameter domain, <<>> for NULL
    end_par_pt_,         \* required end point in the parameter domain, <<>> for NULL
    domain_of_interest_, \* part of the parameter domain considered, <<>> for NULL
    projop,    \* the last member of the evaluator called
    projarg,   \* its arguments: <<t>> or <<t, n>>
    projout,   \* what it returned, or left in ders
    projcalls  \* history: number of evaluator calls

varsLU == <<pc, entry, n, A0, b0, mat, perm, permWrites, parity, scaling, j, pivot_val,
            pivot_row, vec, err, order, rowOf, nswaps, steps>>
varsSub == <<xvec, xprev, lastop, calls>>
varsCG == <<A_, nn_, np_, irow_, jcol_, tolerance_, max_iterations_, M_, omega_,
            diagonal_, diagset_, sx, sy, ex, eb, status, gmat, syold, ex0, iters, path,
            attachNo, precondNo, cgop, cgcalls>>
varsCP == <<cpstate, curve, target, tmin, tmax, seed, tcur, tbest, nsteps, result>>
varsProj == <<space_crv_, crosstan_crv_, start_par_pt_, end_par_pt_, domain_of_interest_,
              projop, projarg, projout, projcalls>>
vars == <<varsLU, varsSub, varsCG, varsCP, varsProj>>

\* what the steps of LUDecomp / LUsolveSystem never touch
othersLU == <<entry, varsSub, varsCG, varsCP, varsProj>>
\* what the vector-valued substitutions never touch
othersSub == <<varsLU, varsCG, varsCP, varsProj>>

-----------------------------------------------------------------------------
(* Bounds of the model. *)

MaxN == 3
MaxDim == 2
MaxCalls == 2

\* entries of the input matrices: a zero, a negative value, two magnitudes
Entries == {-1, 0, 2}
\* right-hand sides of LUsolveSystem are the ramps s, s+1, s+2, ...: their
\* entries differ pairwise, so the order they stand in is visible
RhsStarts == {-1, 1}
\* matrices and components of the vector-valued substitutions
NonZero == Entries \ {0}
RhsVals == {1, 2}

-----------------------------------------------------------------------------
(* Exact rational arithmetic standing for double. *)

Abs(a) == IF a < 0 THEN -a ELSE a

RECURSIVE GCD(_, _)
GCD(a, b) == IF b = 0 THEN a ELSE GCD(b, a % b)

Norm(a, b) ==
    LET g == GCD(Abs(a), Abs(b))
        s == IF b < 0 THEN -1 ELSE 1
    IN  <<(s * a) \div g, (s * b) \div g>>

R(i) == <<i, 1>>
Zero == R(0)
One == R(1)

\* common factors are divided out before the products are formed, so that the
\* intermediate integers stay small
RAdd(x, y) ==
    LET g == GCD(x[2], y[2])
    IN  Norm(x[1] * (y[2] \div g) + y[1] * (x[2] \div g), (x[2] \div g) * y[2])
RSub(x, y) == RAdd(x, <<-y[1], y[2]>>)
RMul(x, y) ==
    LET g == GCD(Abs(x[1]), y[2])
        h == GCD(Abs(y[1]), x[2])
    IN  IF x[1] = 0 \/ y[1] = 0 THEN <<0, 1>>
        ELSE Norm((x[1] \div g) * (y[1] \div h), (x[2] \div h) * (y[2] \div g))
RDiv(x, y) == IF y[1] < 0 THEN RMul(x, <<-y[2], -y[1]>>) ELSE RMul(x, <<y[2], y[1]>>)
RGt(x, y) == x[1] * y[2] > y[1] * x[2]
fabs(x) == <<Abs(x[1]), x[2]>>
RSign(x) == IF x[1] > 0 THEN 1 ELSE IF x[1] < 0 THEN -1 ELSE 0

Rows(k) == 0 .. (k - 1)

-----------------------------------------------------------------------------
(* LUDecomp, line 54:  for (int k = 0; k < num_rows; perm[k] = k++);       *)
(* The store perm[k] = k++ reads k for the subscript and modifies k in the *)
(* same expression.  Before C++17 the two are unsequenced (undefined); the *)
(* builds met in practice evaluate either the subscript first (perm[k]     *)
(* gets k) or the right operand first, as C++17 requires (perm[k+1] gets   *)
(* k: slot 0 is never written and slot num_rows, one past the end, is).    *)

Orders == {"lhs_first", "rhs_first"}

\* the slot written on the pass that starts with k
FillSlot(ord, k) == IF ord = "lhs_first" THEN k ELSE k + 1

RECURSIVE FillLoop(_, _, _, _)
FillLoop(ord, p, k, nn) ==
    IF k >= nn THEN p
    ELSE LET s == FillSlot(ord, k)
         IN  FillLoop(ord, IF s \in DOMAIN p THEN [p EXCEPT ![s] = k] ELSE p,
                      k + 1, nn)

FillPerm(ord, p, nn) == FillLoop(ord, p, 0, nn)

FillWrites(ord, nn) == {FillSlot(ord, k) : k \in Rows(nn)}

-----------------------------------------------------------------------------
(* LUDecomp, lines 56-70: scaling factor of each row. *)

RECURSIVE RowMaxLoop(_, _, _, _, _)
RowMaxLoop(m, i, jj, nn, acc) ==
    IF jj >= nn THEN acc
    ELSE LET temp == fabs(m[i][jj])
         IN  RowMaxLoop(m, i, jj + 1, nn, IF RGt(temp, acc) THEN temp ELSE acc)

\* scaling[i] after the inner loop: the largest absolute element of row i
RowMax(m, i, nn) == RowMaxLoop(m, i, 0, nn, Zero)

\* the rows on which line 65 finds scaling[i] == 0
NullRows(m, nn) == {i \in Rows(nn) : RowMax(m, i, nn) = Zero}

\* variant: the test of line 65 made once, on the first row only
HasNullRowFirstOnly(m, nn) == 0 \in NullRows(m, nn)

HasNullRow(m, nn) == NullRows(m, nn) # {}

\* scaling[i] = double(1) / scaling[i]
Scaling(m, nn) == [i \in Rows(nn) |-> RDiv(One, RowMax(m, i, nn))]

-----------------------------------------------------------------------------
(* LUDecomp, lines 73-97: one column of Crout's algorithm. *)

\* sum = mat[i][jj];  for (k = 0; k <= last; ++k) sum -= mat[i][k] * mat[k][jj];
RECURSIVE SumLoop(_, _, _, _, _, _)
SumLoop(m, i, jj, k, last, sum) ==
    IF k > last THEN sum
    ELSE SumLoop(m, i, jj, k + 1, last, RSub(sum, RMul(m[i][k], m[k][jj])))

CroutSum(m, i, jj, last) == SumLoop(m, i, jj, 0, last, m[i][jj])

\* lines 75-81: the elements of the UPPER matrix on column jj, rows i..jj-1
RECURSIVE UpperLoop(_, _, _)
UpperLoop(m, jj, i) ==
    IF i >= jj THEN m
    ELSE UpperLoop([m EXCEPT ![i][jj] = CroutSum(m, i, jj, i - 1)], jj, i + 1)

\* variant: >= for >, the last of several equal candidates wins
BetterOrEqual(temp, pv) == ~RGt(pv, temp)

\* line 93: does the candidate replace the pivot found so far
Better(temp, pv) == RGt(temp, pv)

\* lines 86-97: the rest of the column and the choice of the pivot
RECURSIVE PivotLoop(_, _, _, _, _, _, _)
PivotLoop(m, jj, i, nn, sc, pv, pr) ==
    IF i >= nn THEN [mat |-> m, pivot_val |-> pv, pivot_row |-> pr]
    ELSE LET sum == CroutSum(m, i, jj, jj - 1)
             m2 == [m EXCEPT ![i][jj] = sum]
             temp == fabs(RMul(sum, sc[i]))
         IN  IF Better(temp, pv)
             THEN PivotLoop(m2, jj, i + 1, nn, sc, temp, i)
             ELSE PivotLoop(m2, jj, i + 1, nn, sc, pv, pr)

\* lines 74-97 for column jj: pivot_val = 0, pivot_row = jj before the loop
Column(m, jj, nn, sc) == PivotLoop(UpperLoop(m, jj, 0), jj, jj, nn, sc, Zero, jj)

\* variant: a threshold on the pivot instead of the test against exact zero
PivotIsSmall(m, pr, jj) == ~RGt(fabs(m[pr][jj]), <<1, 2>>)

\* line 99
PivotIsZero(m, pr, jj) == m[pr][jj] = Zero

\* std::swap of two slots of an array
SwapSlots(f, a, b) == [f EXCEPT ![a] = f[b], ![b] = f[a]]

\* variant: the exchange starts at the pivot column instead of column 0
SwapRowsFromPivotColumn(m, pr, jj, nn) ==
    [i \in Rows(nn) |->
        [k \in Rows(nn) |->
            IF k < jj THEN m[i][k]
            ELSE IF i = pr THEN m[jj][k] ELSE IF i = jj THEN m[pr][k] ELSE m[i][k]]]

\* lines 105-107: std::swap(mat[pivot_row][k], mat[j][k]) for every column k
SwapRows(m, pr, jj, nn) ==
    [i \in Rows(nn) |->
        [k \in Rows(nn) |->
            IF i = pr THEN m[jj][k] ELSE IF i = jj THEN m[pr][k] ELSE m[i][k]]]

\* line 104
NeedSwap(pr, jj) == pr # jj

\* variant: the flag is left as it is
KeepParity(par) == par

\* line 108
Toggle(par) == ~par

\* lines 113-119: the LOWER elements of column jj times 1 / mat[jj][jj]
DividePivot(m, jj, nn) ==
    IF jj < nn - 1
    THEN LET pv == RDiv(One, m[jj][jj])
         IN  [i \in Rows(nn) |->
                 [k \in Rows(nn) |->
                     IF i > jj /\ k = jj THEN RMul(m[i][k], pv) ELSE m[i][k]]]
    ELSE m

-----------------------------------------------------------------------------
(* LUsolveSystem, lines 135-138: permuting b. *)

\* swap(vec[i], vec_old[permutation[i]]) for i = 0 .. nn-1
RECURSIVE PermuteLoop(_, _, _, _, _)
PermuteLoop(v, old, p, i, nn) ==
    IF i >= nn THEN v
    ELSE PermuteLoop([v EXCEPT ![i] = old[p[i]]],
                     [old EXCEPT ![p[i]] = v[i]], p, i + 1, nn)

PermuteRhs(v, p, nn) == PermuteLoop(v, v, p, 0, nn)

-----------------------------------------------------------------------------
(* forwardSubstitution / backwardSubstitution, scalar right-hand side. *)

\* x[i] -= A[i][jj] * x[jj]  for jj = from .. to-1
RECURSIVE SubtractLoop(_, _, _, _, _)
SubtractLoop(A, x, i, jj, to) ==
    IF jj >= to THEN x
    ELSE SubtractLoop(A, [x EXCEPT ![i] = RSub(x[i], RMul(A[i][jj], x[jj]))],
                      i, jj + 1, to)

RECURSIVE ForwardLoop(_, _, _, _)
ForwardLoop(A, x, i, nn) ==
    IF i >= nn THEN x
    ELSE ForwardLoop(A, SubtractLoop(A, x, i, 0, i), i + 1, nn)

forwardSubstitution(A, x, nn) == ForwardLoop(A, x, 1, nn)

\* variant: the diagonal taken as 1, no division
AssumeUnitDiag(A, x, i) == x

\* x[i] /= A[i][i]
DivideDiag(A, x, i) == [x EXCEPT ![i] = RDiv(x[i], A[i][i])]

RECURSIVE BackwardLoop(_, _, _, _)
BackwardLoop(A, x, i, nn) ==
    IF i < 0 THEN x
    ELSE BackwardLoop(A, DivideDiag(A, SubtractLoop(A, x, i, i + 1, nn), i),
                      i - 1, nn)

backwardSubstitution(A, x, nn) ==
    BackwardLoop(A, DivideDiag(A, x, nn - 1), nn - 2, nn)

-----------------------------------------------------------------------------
(* forwardSubstitution / backwardSubstitution, right-hand side given as    *)
(* num_unknowns vectors of doubles, x of type pointer to std::vector.      *)

\* const int dim = int(x[0].size())
Dim(x) == Cardinality(DOMAIN x[0])

\* variant: every component subtracts the first component of x[jj]
RECURSIVE SubtractDimsFirst(_, _, _, _, _, _)
SubtractDimsFirst(A, x, i, jj, dd, dim) ==
    IF dd >= dim THEN x
    ELSE SubtractDimsFirst(A,
             [x EXCEPT ![i][dd] = RSub(x[i][dd], RMul(A[i][jj], x[jj][0]))],
             i, jj, dd + 1, dim)

\* for (dd = 0; dd < dim; ++dd) x[i][dd] -= A[i][jj] * x[jj][dd];
RECURSIVE SubtractDims(_, _, _, _, _, _)
SubtractDims(A, x, i, jj, dd, dim) ==
    IF dd >= dim THEN x
    ELSE SubtractDims(A,
             [x EXCEPT ![i][dd] = RSub(x[i][dd], RMul(A[i][jj], x[jj][dd]))],
             i, jj, dd + 1, dim)

RECURSIVE SubtractLoopVec(_, _, _, _, _, _)
SubtractLoopVec(A, x, i, jj, to, dim) ==
    IF jj >= to THEN x
    ELSE SubtractLoopVec(A, SubtractDims(A, x, i, jj, 0, dim), i, jj + 1, to, dim)

RECURSIVE ForwardLoopVec(_, _, _, _, _)
ForwardLoopVec(A, x, i, nn, dim) ==
    IF i >= nn THEN x
    ELSE ForwardLoopVec(A, SubtractLoopVec(A, x, i, 0, i, dim), i + 1, nn, dim)

forwardSubstitutionVec(A, x, nn) == ForwardLoopVec(A, x, 1, nn, Dim(x))

\* for (dd = 0; dd < dim; ++dd) x[i][dd] /= A[i][i];
RECURSIVE DivideDims(_, _, _, _, _)
DivideDims(A, x, i, dd, dim) ==
    IF dd >= dim THEN x
    ELSE DivideDims(A, [x EXCEPT ![i][dd] = RDiv(x[i][dd], A[i][i])],
                    i, dd + 1, dim)

RECURSIVE BackwardLoopVec(_, _, _, _, _)
BackwardLoopVec(A, x, i, nn, dim) ==
    IF i < 0 THEN x
    ELSE BackwardLoopVec(A,
             DivideDims(A, SubtractLoopVec(A, x, i, i + 1, nn, dim), i, 0, dim),
             i - 1, nn, dim)

backwardSubstitutionVec(A, x, nn) ==
    BackwardLoopVec(A, DivideDims(A, x, nn - 1, 0, Dim(x)), nn - 2, nn, Dim(x))

-----------------------------------------------------------------------------
(* LUsolveSystem(A, num_unknowns, vec) as a state machine.  pc names the   *)
(* statement about to run.                                                 *)

Matrices(k, S) == [Rows(k) -> [Rows(k) -> {R(e) : e \in S}]]
Ramps(k) == {[i \in Rows(k) |-> R(s + i)] : s \in RhsStarts}
VecRhs(k, d) == [Rows(k) -> [Rows(d) -> {R(e) : e \in RhsVals}]]

\* no projection evaluator constructed
ProjIdle ==
    /\ space_crv_ = "none"
    /\ crosstan_crv_ = "none"
    /\ start_par_pt_ = <<>>
    /\ end_par_pt_ = <<>>
    /\ domain_of_interest_ = <<>>
    /\ projop = "none"
    /\ projarg = <<>>
    /\ projout = <<>>
    /\ projcalls = 0

\* no closest-point search in progress
CPIdle ==
    /\ ProjIdle
    /\ cpstate = "idle"
    /\ curve = "none"
    /\ target = Zero
    /\ tmin = Zero
    /\ tmax = Zero
    /\ seed = <<>>
    /\ tcur = Zero
    /\ tbest = Zero
    /\ nsteps = 0
    /\ result = <<>>

\* no SolveCG object in use
CGIdle ==
    /\ A_ = <<>>
    /\ nn_ = 0
    /\ np_ = 0
    /\ irow_ = <<>>
    /\ jcol_ = <<>>
    /\ tolerance_ = Zero
    /\ max_iterations_ = 0
    /\ M_ = <<>>
    /\ omega_ = Zero
    /\ diagonal_ = <<>>
    /\ diagset_ = 0
    /\ sx = <<>>
    /\ sy = <<>>
    /\ ex = <<>>
    /\ eb = <<>>
    /\ status = 0
    /\ gmat = <<>>
    /\ syold = <<>>
    /\ ex0 = <<>>
    /\ iters = 0
    /\ path = "none"
    /\ attachNo = 0
    /\ precondNo = 0
    /\ cgop = "none"
    /\ cgcalls = 0

SubIdle ==
    /\ xvec = <<>>
    /\ xprev = <<>>
    /\ lastop = "none"
    /\ calls = 0

\* LUsolveSystem entered: parity is not initialised (it is assigned before any
\* read), permutation is a std::vector<int> of num_unknowns zeros.
InitLU ==
    /\ pc = "fill"
    /\ entry = "LUsolveSystem"
    /\ n \in 1 .. MaxN
    /\ A0 \in Matrices(n, Entries)
    /\ b0 \in Ramps(n)
    /\ mat = A0
    /\ vec = b0
    /\ perm = [i \in Rows(n) |-> 0]
    /\ permWrites = {}
    /\ parity = FALSE
    /\ scaling = <<>>
    /\ j = 0
    /\ pivot_val = Zero
    /\ pivot_row = 0
    /\ err = "none"
    /\ order \in Orders
    /\ rowOf = [i \in Rows(n) |-> i]
    /\ nswaps = 0
    /\ steps = <<>>
    /\ SubIdle
    /\ CGIdle
    /\ CPIdle

\* LUDecomp lines 51-54
FillStep ==
    /\ pc = "fill"
    /\ parity' = TRUE
    /\ perm' = FillPerm(order, perm, n)
    /\ permWrites' = FillWrites(order, n)
    /\ pc' = "scale"
    /\ UNCHANGED <<n, A0, b0, mat, scaling, j, pivot_val, pivot_row, vec, err,
                   order, rowOf, nswaps, steps>>
    /\ UNCHANGED othersLU

\* LUDecomp lines 56-70, a null row found: throw
ScaleThrow ==
    /\ pc = "scale"
    /\ HasNullRow(mat, n)
    /\ err' = "NullRow"
    /\ pc' = "error"
    /\ UNCHANGED <<n, A0, b0, mat, perm, permWrites, parity, scaling, j,
                   pivot_val, pivot_row, vec, order, rowOf, nswaps, steps>>
    /\ UNCHANGED othersLU

\* LUDecomp lines 56-70, no null row
ScaleStep ==
    /\ pc = "scale"
    /\ ~HasNullRow(mat, n)
    /\ scaling' = Scaling(mat, n)
    /\ j' = 0
    /\ pc' = "column"
    /\ UNCHANGED <<n, A0, b0, mat, perm, permWrites, parity, pivot_val,
                   pivot_row, vec, err, order, rowOf, nswaps, steps>>
    /\ UNCHANGED othersLU

\* LUDecomp lines 74-97 for column j
ColumnStep ==
    /\ pc = "column"
    /\ LET c == Column(mat, j, n, scaling)
       IN  /\ mat' = c.mat
           /\ pivot_val' = c.pivot_val
           /\ pivot_row' = c.pivot_row
    /\ pc' = "pivot"
    /\ UNCHANGED <<n, A0, b0, perm, permWrites, parity, scaling, j, vec, err,
                   order, rowOf, nswaps, steps>>
    /\ UNCHANGED othersLU

\* LUDecomp lines 99-101: throw
PivotThrow ==
    /\ pc = "pivot"
    /\ PivotIsZero(mat, pivot_row, j)
    /\ err' = "Singular"
    /\ pc' = "error"
    /\ UNCHANGED <<n, A0, b0, mat, perm, permWrites, parity, scaling, j,
                   pivot_val, pivot_row, vec, order, rowOf, nswaps, steps>>
    /\ UNCHANGED othersLU

\* LUDecomp lines 103-111, pivot_row != j: the rows are exchanged
SwapStep ==
    /\ pc = "pivot"
    /\ ~PivotIsZero(mat, pivot_row, j)
    /\ NeedSwap(pivot_row, j)
    /\ mat' = SwapRows(mat, pivot_row, j, n)
    /\ parity' = Toggle(parity)
    /\ scaling' = SwapSlots(scaling, j, pivot_row)
    /\ perm' = SwapSlots(perm, j, pivot_row)
    /\ rowOf' = SwapSlots(rowOf, j, pivot_row)
    /\ nswaps' = nswaps + 1
    /\ pc' = "divide"
    /\ UNCHANGED <<n, A0, b0, permWrites, j, pivot_val, pivot_row, vec, err,
                   order, steps>>
    /\ UNCHANGED othersLU

\* LUDecomp lines 103-111, pivot_row == j: nothing to exchange
NoSwapStep ==
    /\ pc = "pivot"
    /\ ~PivotIsZero(mat, pivot_row, j)
    /\ ~NeedSwap(pivot_row, j)
    /\ pc' = "divide"
    /\ UNCHANGED <<n, A0, b0, mat, perm, permWrites, parity, scaling, j,
                   pivot_val, pivot_row, vec, err, order, rowOf, nswaps, steps>>
    /\ UNCHANGED othersLU

\* LUDecomp lines 113-120; after the last column LUDecomp returns, to line 134
\* of LUsolveSystem or to the caller that entered LUDecomp itself
DivideStep ==
    /\ pc = "divide"
    /\ mat' = DividePivot(mat, j, n)
    /\ pivot_val' = IF j < n - 1 THEN RDiv(One, mat[j][j]) ELSE pivot_val
    /\ j' = j + 1
    /\ IF j + 1 < n
       THEN pc' = "column" /\ steps' = steps
       ELSE /\ pc' = IF entry = "LUsolveSystem" THEN "permute" ELSE "returned"
            /\ steps' = Append(steps, "decomp")
    /\ UNCHANGED <<n, A0, b0, perm, permWrites, parity, scaling, pivot_row,
                   vec, err, order, rowOf, nswaps>>
    /\ UNCHANGED othersLU

\* LUsolveSystem lines 135-138
PermuteStep ==
    /\ pc = "permute"
    /\ vec' = PermuteRhs(vec, perm, n)
    /\ steps' = Append(steps, "permute")
    /\ pc' = "forward"
    /\ UNCHANGED <<n, A0, b0, mat, perm, permWrites, parity, scaling, j,
                   pivot_val, pivot_row, err, order, rowOf, nswaps>>
    /\ UNCHANGED othersLU

\* LUsolveSystem line 139
ForwardStep ==
    /\ pc = "forward"
    /\ vec' = forwardSubstitution(mat, vec, n)
    /\ steps' = Append(steps, "forward")
    /\ pc' = "backward"
    /\ UNCHANGED <<n, A0, b0, mat, perm, permWrites, parity, scaling, j,
                   pivot_val, pivot_row, err, order, rowOf, nswaps>>
    /\ UNCHANGED othersLU

\* LUsolveSystem line 140
BackwardStep ==
    /\ pc = "backward"
    /\ vec' = backwardSubstitution(mat, vec, n)
    /\ steps' = Append(steps, "backward")
    /\ pc' = "done"
    /\ UNCHANGED <<n, A0, b0, mat, perm, permWrites, parity, scaling, j,
                   pivot_val, pivot_row, err, order, rowOf, nswaps>>
    /\ UNCHANGED othersLU

NextLU ==
    \/ FillStep
    \/ ScaleThrow
    \/ ScaleStep
    \/ ColumnStep
    \/ PivotThrow
    \/ SwapStep
    \/ NoSwapStep
    \/ DivideStep
    \/ PermuteStep
    \/ ForwardStep
    \/ BackwardStep

SpecLU == InitLU /\ [][NextLU]_vars

-----------------------------------------------------------------------------
(* LUDecomp(mat, num_rows, perm, parity) entered by a caller of its own:   *)
(* perm points to num_rows ints the caller has not initialised, their      *)
(* content is whatever the memory held.                                    *)

PermJunk == {-1, 5}

InitDecomp ==
    /\ pc = "fill"
    /\ entry = "LUDecomp"
    /\ n \in 1 .. MaxN
    /\ A0 \in Matrices(n, Entries)
    /\ b0 = <<>>
    /\ mat = A0
    /\ vec = <<>>
    /\ \E g \in PermJunk : perm = [i \in Rows(n) |-> g]
    /\ permWrites = {}
    /\ parity = FALSE
    /\ scaling = <<>>
    /\ j = 0
    /\ pivot_val = Zero
    /\ pivot_row = 0
    /\ err = "none"
    /\ order \in Orders
    /\ rowOf = [i \in Rows(n) |-> i]
    /\ nswaps = 0
    /\ steps = <<>>
    /\ SubIdle
    /\ CGIdle
    /\ CPIdle

NextDecomp ==
    \/ FillStep
    \/ ScaleThrow
    \/ ScaleStep
    \/ ColumnStep
    \/ PivotThrow
    \/ SwapStep
    \/ NoSwapStep
    \/ DivideStep

SpecDecomp == InitDecomp /\ [][NextDecomp]_vars

-----------------------------------------------------------------------------
(* The scalar forwardSubstitution / backwardSubstitution called by a       *)
(* caller of its own on a matrix with a nonzero diagonal.                  *)

Vectors(k, S) == [Rows(k) -> {R(e) : e \in S}]

InitScalar ==
    /\ pc = "scalar"
    /\ entry = "substitution"
    /\ n \in 1 .. MaxN
    /\ A0 \in Matrices(n, NonZero)
    /\ mat = A0
    /\ b0 \in Vectors(n, RhsVals)
    /\ vec = b0
    /\ perm = <<>>
    /\ permWrites = {}
    /\ parity = FALSE
    /\ scaling = <<>>
    /\ j = 0
    /\ pivot_val = Zero
    /\ pivot_row = 0
    /\ err = "none"
    /\ order = "lhs_first"
    /\ rowOf = <<>>
    /\ nswaps = 0
    /\ steps = <<>>
    /\ SubIdle
    /\ CGIdle
    /\ CPIdle

CallForward ==
    /\ pc = "scalar"
    /\ Len(steps) < MaxCalls
    /\ vec' = forwardSubstitution(mat, vec, n)
    /\ steps' = Append(steps, "forward")
    /\ UNCHANGED <<pc, n, A0, b0, mat, perm, permWrites, parity, scaling, j,
                   pivot_val, pivot_row, err, order, rowOf, nswaps>>
    /\ UNCHANGED othersLU

CallBackward ==
    /\ pc = "scalar"
    /\ Len(steps) < MaxCalls
    /\ vec' = backwardSubstitution(mat, vec, n)
    /\ steps' = Append(steps, "backward")
    /\ UNCHANGED <<pc, n, A0, b0, mat, perm, permWrites, parity, scaling, j,
                   pivot_val, pivot_row, err, order, rowOf, nswaps>>
    /\ UNCHANGED othersLU

NextScalar ==
    \/ CallForward
    \/ CallBackward

SpecScalar == InitScalar /\ [][NextScalar]_vars

-----------------------------------------------------------------------------
(* The vector-valued substitutions called on a matrix with a nonzero       *)
(* diagonal (as LUDecomp leaves it) and num_unknowns vectors of dim        *)
(* components.                                                             *)

LUIdle ==
    /\ entry = "none"
    /\ A0 = mat
    /\ b0 = <<>>
    /\ perm = <<>>
    /\ permWrites = {}
    /\ parity = FALSE
    /\ scaling = <<>>
    /\ j = 0
    /\ pivot_val = Zero
    /\ pivot_row = 0
    /\ vec = <<>>
    /\ err = "none"
    /\ order = "lhs_first"
    /\ rowOf = <<>>
    /\ nswaps = 0
    /\ steps = <<>>

InitSub ==
    /\ pc = "sub"
    /\ n \in 1 .. MaxN
    /\ mat \in Matrices(n, NonZero)
    /\ \E d \in 1 .. MaxDim : xvec \in VecRhs(n, d)
    /\ xprev = xvec
    /\ lastop = "none"
    /\ calls = 0
    /\ LUIdle
    /\ CGIdle
    /\ CPIdle

CallForwardVec ==
    /\ pc = "sub"
    /\ calls < MaxCalls
    /\ xprev' = xvec
    /\ xvec' = forwardSubstitutionVec(mat, xvec, n)
    /\ lastop' = "forward"
    /\ calls' = calls + 1
    /\ UNCHANGED othersSub

CallBackwardVec ==
    /\ pc = "sub"
    /\ calls < MaxCalls
    /\ xprev' = xvec
    /\ xvec' = backwardSubstitutionVec(mat, xvec, n)
    /\ lastop' = "backward"
    /\ calls' = calls + 1
    /\ UNCHANGED othersSub

NextSub ==
    \/ CallForwardVec
    \/ CallBackwardVec

SpecSub == InitSub /\ [][NextSub]_vars

-----------------------------------------------------------------------------
(* SolveCG (copyright.h, class SolveCG): the matrix is kept row by row in  *)
(* A_ / jcol_ with irow_[k] the first slot of row k.  matrixProduct is     *)
(* inline in the header; the other members are only declared there and     *)
(* follow the specification.                                               *)

MaxMP == 2
\* content of a caller buffer that was never written
Junk == R(9)

\* double *gmat of attachMatrix: the nn*nn matrix m stored columnwise
ColumnWise(m, k) == [s \in 0 .. (k * k - 1) |-> m[s % k][s \div k]]

\* the nonzeros <<column, value>> of row ki of gmat, from column kj on
RECURSIVE AttachRow(_, _, _, _)
AttachRow(g, nn, ki, kj) ==
    IF kj >= nn THEN <<>>
    ELSE (IF g[kj * nn + ki] # Zero THEN << <<kj, g[kj * nn + ki]>> >> ELSE <<>>)
         \o AttachRow(g, nn, ki, kj + 1)

\* the nonzeros of the rows ki, ki+1, .. in storage order
RECURSIVE AttachRows(_, _, _)
AttachRows(g, nn, ki) ==
    IF ki >= nn THEN <<>>
    ELSE AttachRow(g, nn, ki, 0) \o AttachRows(g, nn, ki + 1)

\* irow_[ki]: the number of nonzeros in the rows before ki
RECURSIVE RowStart(_, _, _)
RowStart(g, nn, ki) ==
    IF ki = 0 THEN 0
    ELSE RowStart(g, nn, ki - 1) + Len(AttachRow(g, nn, ki - 1, 0))

\* attachMatrix(gmat, nn): the compressed storage of gmat
attachMatrix(g, nn) ==
    LET slots == AttachRows(g, nn, 0)
    IN  [A    |-> [s \in Rows(Len(slots)) |-> slots[s + 1][2]],
         jcol |-> [s \in Rows(Len(slots)) |-> slots[s + 1][1]],
         irow |-> [ki \in 0 .. nn |-> RowStart(g, nn, ki)],
         nn   |-> nn,
         np   |-> Len(slots)]

\* the row a slot belongs to
SlotRow(irow, nn, s) == CHOOSE ki \in Rows(nn) : irow[ki] <= s /\ s < irow[ki + 1]

\* the same matrix with the nonzeros of every row stored in the opposite order
StoredReversed(c) ==
    LET mirror(s) == c.irow[SlotRow(c.irow, c.nn, s)]
                     + c.irow[SlotRow(c.irow, c.nn, s) + 1] - 1 - s
    IN  [c EXCEPT !.A = [s \in Rows(c.np) |-> c.A[mirror(s)]],
                  !.jcol = [s \in Rows(c.np) |-> c.jcol[mirror(s)]]]

\* variant: the slot keeps what the caller left in it
KeepSlot(y, kj) == y

\* sy[kj] = 0.0
ResetSlot(y, kj) == [y EXCEPT ![kj] = Zero]

\* for (ki = irow_[kj]; ki < irow_[kj+1]; ki++) sy[kj] += A_[ki] * sx[jcol_[ki]]
RECURSIVE RowLoop(_, _, _, _, _, _, _)
RowLoop(A, jcol, x, y, kj, ki, kend) ==
    IF ki >= kend THEN y
    ELSE RowLoop(A, jcol, x,
                 [y EXCEPT ![kj] = RAdd(y[kj], RMul(A[ki], x[jcol[ki]]))],
                 kj, ki + 1, kend)

\* for (kj = 0; kj < nn_; kj++)
RECURSIVE ProductLoop(_, _, _, _, _, _, _)
ProductLoop(A, irow, jcol, nn, x, y, kj) ==
    IF kj >= nn THEN y
    ELSE ProductLoop(A, irow, jcol, nn, x,
                     RowLoop(A, jcol, x, ResetSlot(y, kj), kj, irow[kj], irow[kj + 1]),
                     kj + 1)

\* matrixProduct(sx, sy) on the storage (A, irow, jcol, nn): the new sy
matrixProduct(A, irow, jcol, nn, x, y) == ProductLoop(A, irow, jcol, nn, x, y, 0)

\* matrices handed to matrixProduct: every matrix up to MaxMP x MaxMP over
\* Entries, symmetric or not, null rows included
ProductMatrices == UNION {Matrices(k, Entries) : k \in 1 .. MaxMP}
Size(m) == Cardinality(DOMAIN m)

\* a SolveCG object whose storage holds a matrix, rows stored in either order
InitProduct ==
    /\ pc = "matrixProduct"
    /\ n = 0
    /\ mat = <<>>
    /\ LUIdle
    /\ SubIdle
    /\ CPIdle
    /\ gmat \in ProductMatrices
    /\ \E rev \in BOOLEAN :
          LET c == attachMatrix(ColumnWise(gmat, Size(gmat)), Size(gmat))
              d == IF rev THEN StoredReversed(c) ELSE c
          IN  /\ A_ = d.A
              /\ irow_ = d.irow
              /\ jcol_ = d.jcol
              /\ nn_ = d.nn
              /\ np_ = d.np
    /\ tolerance_ = Zero
    /\ max_iterations_ = 0
    /\ M_ = <<>>
    /\ omega_ = Zero
    /\ diagonal_ = <<>>
    /\ diagset_ = 0
    /\ sx = [i \in Rows(nn_) |-> Zero]
    /\ sy \in {[i \in Rows(nn_) |-> v] : v \in {Zero, Junk}}
    /\ syold = sy
    /\ ex = <<>>
    /\ eb = <<>>
    /\ ex0 = <<>>
    /\ status = 0
    /\ iters = 0
    /\ path = "none"
    /\ attachNo = 1
    /\ precondNo = 0
    /\ cgop = "attachMatrix"
    /\ cgcalls = 0

CallMatrixProduct ==
    /\ pc = "matrixProduct"
    /\ cgcalls < MaxCalls
    /\ \E x \in Vectors(nn_, Entries) :
          /\ sx' = x
          /\ sy' = matrixProduct(A_, irow_, jcol_, nn_, x, sy)
    /\ syold' = sy
    /\ cgop' = "matrixProduct"
    /\ cgcalls' = cgcalls + 1
    /\ UNCHANGED <<A_, nn_, np_, irow_, jcol_, tolerance_, max_iterations_, M_, omega_,
                   diagonal_, diagset_, ex, eb, status, gmat, ex0, iters, path,
                   attachNo, precondNo>>
    /\ UNCHANGED <<varsLU, varsSub, varsCP, varsProj>>

NextProduct == CallMatrixProduct

SpecProduct == InitProduct /\ [][NextProduct]_vars

-----------------------------------------------------------------------------
(* attachMatrix, precondRILU and solve on one SolveCG object.  The header  *)
(* declares them; their bodies follow the specification: conjugate         *)
(* gradients on the stored matrix, optionally preconditioned by the        *)
(* relaxed incomplete LU factors kept in M_.  The two setters are defined  *)
(* in the header and store their argument as it is.  What attachMatrix     *)
(* does to M_, diagonal_ and diagset_ is stated by neither the header nor  *)
(* section 4.2; the reading taken here is that of sections 3 and 9, where  *)
(* the factors and the diagonal index belong to one attached system.       *)

MaxIter == 3
MaxOps == 4

\* tolerance_ after construction and as the default of setTolerance
DefaultTolerance == <<1, 1000000>>
Tolerances == {DefaultTolerance, One}
\* setMaxIterations(int) stores any int
IterationLimits == {-1, 0, 1, MaxIter}
RelaxFactors == {Zero, One}

\* symmetric positive definite systems handed to attachMatrix
Dense(rows) == [ki \in Rows(Len(rows)) |->
                   [kj \in Rows(Len(rows)) |-> R(rows[ki + 1][kj + 1])]]
SystemMatrices ==
    { Dense(<< <<2>> >>),
      Dense(<< <<2, 0>>, <<0, 1>> >>),
      Dense(<< <<2, -1>>, <<-1, 2>> >>),
      Dense(<< <<2, -1, 0>>, <<-1, 2, -1>>, <<0, -1, 2>> >>),
      Dense(<< <<2, 1, 1>>, <<1, 1, 0>>, <<1, 0, 2>> >>) }
UnitVector(k) == [i \in Rows(k) |-> IF i = 0 THEN One ELSE Zero]
Guesses(k) == {[i \in Rows(k) |-> Zero], UnitVector(k)}
RightSides(k) == {[i \in Rows(k) |-> One], UnitVector(k)}

\* the one element of a set of one element
Only(S) == CHOOSE v \in S : TRUE

\* getIndex(ki, kj): the slot of element (ki, kj), -1 if it is not stored
getIndex(ki, kj) ==
    LET S == {s \in irow_[ki] .. (irow_[ki + 1] - 1) : jcol_[s] = kj}
    IN  IF S = {} THEN -1 ELSE CHOOSE s \in S : TRUE

\* row i minus l times row k of the factors, over the slots of row k right of
\* the diagonal; fill outside the pattern goes to the diagonal times omega
RECURSIVE EliminateSlots(_, _, _, _, _, _, _)
EliminateSlots(M, omega, k, i, l, s, send) ==
    IF s >= send THEN M
    ELSE IF jcol_[s] <= k THEN EliminateSlots(M, omega, k, i, l, s + 1, send)
    ELSE LET t == getIndex(i, jcol_[s])
             d == getIndex(i, i)
             fill == RMul(l, M[s])
         IN  Only({EliminateSlots(N, omega, k, i, l, s + 1, send) : N \in {
                 IF t >= 0 THEN [M EXCEPT ![t] = RSub(M[t], fill)]
                 ELSE IF d >= 0 THEN [M EXCEPT ![d] = RSub(M[d], RMul(omega, fill))]
                 ELSE M}})

\* elimination of column k in the rows i, i+1, ..
RECURSIVE EliminateRows(_, _, _, _)
EliminateRows(M, omega, k, i) ==
    IF i >= nn_ THEN M
    ELSE LET t == getIndex(i, k)
         IN  IF t < 0 THEN EliminateRows(M, omega, k, i + 1)
             ELSE LET l == RDiv(M[t], M[getIndex(k, k)])
                  IN  Only({EliminateRows(N, omega, k, i + 1) : N \in {
                          EliminateSlots([M EXCEPT ![t] = l], omega, k, i, l,
                                         irow_[k], irow_[k + 1])}})

\* the factorization from column k on; it stops at a zero pivot
RECURSIVE Factorize(_, _, _)
Factorize(M, omega, k) ==
    IF k >= nn_ - 1 THEN M
    ELSE IF getIndex(k, k) < 0 \/ M[getIndex(k, k)] = Zero THEN M
    ELSE Only({Factorize(N, omega, k + 1) : N \in {EliminateRows(M, omega, k, k + 1)}})

\* a zero or missing pivot in the factors
SingularPivot(M) ==
    \E k \in Rows(nn_) : getIndex(k, k) < 0 \/ M[getIndex(k, k)] = Zero

\* v[i] minus the stored elements of row i left (lower) or right of the diagonal
\* times the components of v they meet
RECURSIVE SubtractSlots(_, _, _, _, _)
SubtractSlots(v, i, s, send, lower) ==
    IF s >= send THEN v
    ELSE Only({SubtractSlots(w, i, s + 1, send, lower) : w \in {
             IF (lower /\ jcol_[s] < i) \/ (~lower /\ jcol_[s] > i)
             THEN [v EXCEPT ![i] = RSub(v[i], RMul(M_[s], v[jcol_[s]]))]
             ELSE v}})

RECURSIVE ForwardRows(_, _)
ForwardRows(v, i) ==
    IF i >= nn_ THEN v
    ELSE Only({ForwardRows(w, i + 1) : w \in {
             SubtractSlots(v, i, irow_[i], irow_[i + 1], TRUE)}})

RECURSIVE BackwardRows(_, _)
BackwardRows(v, i) ==
    IF i < 0 THEN v
    ELSE Only({BackwardRows([w EXCEPT ![i] = RDiv(w[i], M_[diagonal_[i]])], i - 1)
               : w \in {SubtractSlots(v, i, irow_[i], irow_[i + 1], FALSE)}})

\* forwBack(r, s): s with M_ * s = r
forwBack(r) == Only({BackwardRows(w, nn_ - 1) : w \in {ForwardRows(r, 0)}})

RECURSIVE DotFrom(_, _, _)
DotFrom(x, y, i) ==
    IF i >= nn_ THEN Zero
    ELSE Only({RAdd(RMul(x[i], y[i]), rest) : rest \in {DotFrom(x, y, i + 1)}})
Dot(x, y) == DotFrom(x, y, 0)
\* x + a * p
RECURSIVE AxpyFrom(_, _, _, _)
AxpyFrom(x, a, p, i) ==
    IF i >= nn_ THEN <<>>
    ELSE Only({(i :> RAdd(x[i], t)) @@ AxpyFrom(x, a, p, i + 1) : t \in {RMul(a, p[i])}})
Axpy(x, a, p) == AxpyFrom(x, a, p, 0)

\* sqrt(q) <= tol, for q >= 0 and tol > 0
BelowSquare(q, tol) ==
    q[1] <= ((tol[1] * tol[1] * q[2]) \div tol[2]) \div tol[2]

\* the residual norm relative to the norm of the right side is within tol:
\* sqrt(rr) <= tol * sqrt(bb)
WithinTolerance(rr, bb, tol) ==
    IF bb = Zero THEN rr = Zero ELSE BelowSquare(RDiv(rr, bb), tol)

\* the product A_ * x into a work array that was never written
Product(x) == matrixProduct(A_, irow_, jcol_, nn_, x, [i \in Rows(nn_) |-> Junk])

\* the search direction for residual r
Direction(precond, r) == IF precond THEN forwBack(r) ELSE r

\* one iteration of conjugate gradients from the iterate x, residual r,
\* direction p and rz = r . z
Step(precond, st) ==
    Only({Only({Only({Only({Only({
        [x |-> Axpy(st.x, alpha, st.p), r |-> r1,
         p |-> Axpy(z1, RDiv(rz1, st.rz), st.p), rz |-> rz1, it |-> st.it + 1]
        : rz1 \in {Dot(r1, z1)}})
        : z1 \in {Direction(precond, r1)}})
        : r1 \in {Axpy(st.r, RSub(Zero, alpha), q)}})
        : alpha \in {RDiv(st.rz, Dot(st.p, q))}})
        : q \in {Product(st.p)}})

\* the iteration of conjugate gradients: the convergence test, then the test
\* of the limit, then a step; the set holds the one outcome
RECURSIVE IterateFrom(_, _, _)
IterateFrom(precond, st, bb) ==
    IF WithinTolerance(Dot(st.r, st.r), bb, tolerance_)
    THEN {[x |-> st.x, status |-> 0, iters |-> st.it]}
    ELSE IF st.it >= max_iterations_
    THEN {[x |-> st.x, status |-> 1, iters |-> st.it]}
    ELSE UNION {IterateFrom(precond, nxt, bb) : nxt \in {Step(precond, st)}}
Iterate(precond, st, bb) == Only(IterateFrom(precond, st, bb))

\* the state before the first iteration: the residual b - A_ * x and the
\* first direction
FirstState(precond, x, b) ==
    Only({Only({Only({Only({
        [x |-> x, r |-> r, p |-> z, rz |-> rz, it |-> 0]
        : rz \in {Dot(r, z)}})
        : z \in {Direction(precond, r)}})
        : r \in {Axpy(b, R(-1), q)}})
        : q \in {Product(x)}})

ConjugateGradients(precond, x, b) ==
    Only({Iterate(precond, st, Dot(b, b)) : st \in {FirstState(precond, x, b)}})

\* the structural errors both routines report: nothing attached, or a size
\* that is not the one of the attached system
Unattached(x) == [x |-> x, status |-> -2, iters |-> 0]
SizeMismatch(x) == [x |-> x, status |-> -1, iters |-> 0]

\* solveStd(ex, eb, nn)
solveStd(x, b, nn) ==
    IF nn_ = 0 THEN Unattached(x)
    ELSE IF nn # nn_ THEN SizeMismatch(x)
    ELSE ConjugateGradients(FALSE, x, b)

\* solveRILU(ex, eb, nn)
solveRILU(x, b, nn) ==
    IF nn_ = 0 THEN Unattached(x)
    ELSE IF nn # nn_ THEN SizeMismatch(x)
    ELSE IF SingularPivot(M_) THEN [x |-> x, status |-> -3, iters |-> 0]
    ELSE ConjugateGradients(TRUE, x, b)

\* the routine solve hands the system to: the preconditioned one if factors
\* have been built
Dispatch == IF M_ # <<>> THEN "solveRILU" ELSE "solveStd"

\* solve(ex, eb, nn)
solve(x, b, nn) ==
    IF Dispatch = "solveRILU" THEN solveRILU(x, b, nn) ELSE solveStd(x, b, nn)

\* SolveCG(): nothing attached, no preconditioner
InitCG ==
    /\ pc = "SolveCG"
    /\ n = 0
    /\ mat = <<>>
    /\ LUIdle
    /\ SubIdle
    /\ CPIdle
    /\ A_ = <<>>
    /\ nn_ = 0
    /\ np_ = 0
    /\ irow_ = <<>>
    /\ jcol_ = <<>>
    /\ tolerance_ = DefaultTolerance
    /\ max_iterations_ \in IterationLimits
    /\ M_ = <<>>
    /\ omega_ = Zero
    /\ diagonal_ = <<>>
    /\ diagset_ = 0
    /\ sx = <<>>
    /\ sy = <<>>
    /\ ex = <<>>
    /\ eb = <<>>
    /\ status = 0
    /\ gmat = <<>>
    /\ syold = <<>>
    /\ ex0 = <<>>
    /\ iters = 0
    /\ path = "none"
    /\ attachNo = 0
    /\ precondNo = 0
    /\ cgop = "none"
    /\ cgcalls = 0

\* the state outside the SolveCG object
varsNotCG == <<sx, sy, syold, varsLU, varsSub, varsCP, varsProj>>

CGCall(op) ==
    /\ pc = "SolveCG"
    /\ cgcalls < MaxOps
    /\ cgop' = op
    /\ cgcalls' = cgcalls + 1

AttachMatrix ==
    /\ CGCall("attachMatrix")
    /\ \E m \in SystemMatrices :
          LET c == attachMatrix(ColumnWise(m, Size(m)), Size(m))
          IN  /\ A_' = c.A
              /\ irow_' = c.irow
              /\ jcol_' = c.jcol
              /\ nn_' = c.nn
              /\ np_' = c.np
              /\ gmat' = m
    /\ M_' = <<>>
    /\ diagonal_' = <<>>
    /\ diagset_' = 0
    /\ attachNo' = attachNo + 1
    /\ UNCHANGED <<tolerance_, max_iterations_, omega_, ex, eb, status, ex0, iters, path,
                   precondNo, varsNotCG>>

PrecondRILU ==
    /\ CGCall("precondRILU")
    /\ \E relaxfac \in RelaxFactors :
          /\ omega_' = relaxfac
          /\ M_' = Factorize(A_, relaxfac, 0)
    /\ diagonal_' = IF diagset_ = 1 THEN diagonal_
                    ELSE [k \in Rows(nn_) |-> getIndex(k, k)]
    /\ diagset_' = 1
    /\ precondNo' = attachNo
    /\ UNCHANGED <<A_, nn_, np_, irow_, jcol_, tolerance_, max_iterations_, ex, eb, status,
                   gmat, ex0, iters, path, attachNo, varsNotCG>>

Solve ==
    /\ CGCall("solve")
    /\ \E nn \in 1 .. MaxN : \E x \in Guesses(nn) : \E b \in RightSides(nn) :
          LET res == solve(x, b, nn)
          IN  /\ ex0' = x
              /\ eb' = b
              /\ ex' = res.x
              /\ status' = res.status
              /\ iters' = res.iters
              /\ path' = Dispatch
    /\ UNCHANGED <<A_, nn_, np_, irow_, jcol_, tolerance_, max_iterations_, M_, omega_,
                   diagonal_, diagset_, gmat, attachNo, precondNo, varsNotCG>>

SetTolerance ==
    /\ CGCall("setTolerance")
    /\ \E tolerance \in Tolerances : tolerance_' = tolerance
    /\ UNCHANGED <<A_, nn_, np_, irow_, jcol_, max_iterations_, M_, omega_, diagonal_,
                   diagset_, ex, eb, status, gmat, ex0, iters, path, attachNo, precondNo, varsNotCG>>

SetMaxIterations ==
    /\ CGCall("setMaxIterations")
    /\ \E max_iterations \in IterationLimits : max_iterations_' = max_iterations
    /\ UNCHANGED <<A_, nn_, np_, irow_, jcol_, tolerance_, M_, omega_, diagonal_,
                   diagset_, ex, eb, status, gmat, ex0, iters, path, attachNo, precondNo, varsNotCG>>

NextCG ==
    \/ AttachMatrix
    \/ PrecondRILU
    \/ Solve
    \/ SetTolerance
    \/ SetMaxIterations

SpecCG == InitCG /\ [][NextCG]_vars

-----------------------------------------------------------------------------
(* ParamCurve::closestPoint(pt, tmin, tmax, clo_t, clo_pt, clo_dist, seed) *)
(* (LUDecomp_implementation.h, class ParamCurve).  The header declares the *)
(* function and its outputs; the search itself follows the specification:  *)
(* a seed or a coarse sampling pass, then Newton steps on the squared      *)
(* distance, clamped to [tmin, tmax].  Curves and points have one          *)
(* coordinate, so that distances are exact.                                *)

MaxSteps == 2
NumSamples == 2

\* iterates are kept to a fixed precision, as a double keeps them to 53 bits:
\* here to multiples of 1 / Precision
Precision == 16
Round(t) == Norm((2 * t[1] * Precision + t[2]) \div (2 * t[2]), Precision)

\* the internal threshold on the step size
StepTolerance == <<1, 100>>

Curves == {"line", "parabola"}
Targets == {R(-1), R(2), R(5)}
Intervals == {<<R(0), R(2)>>, <<R(-1), R(1)>>, <<R(1), R(3)>>}

\* ParamCurve::point and its first and second derivative
Position(c, t) == IF c = "line" THEN t ELSE RMul(t, t)
Derivative(c, t) == IF c = "line" THEN One ELSE RMul(R(2), t)
SecondDerivative(c, t) == IF c = "line" THEN Zero ELSE R(2)

RLe(x, y) == ~RGt(x, y)
Distance(c, pt, t) == fabs(RSub(Position(c, t), pt))

\* variant: the step is taken as computed
Unclamped(t, lo, hi) == t

\* the parameter brought back into [lo, hi]
Clamp(t, lo, hi) == IF RGt(lo, t) THEN lo ELSE IF RGt(t, hi) THEN hi ELSE t

\* the Newton step on half the squared distance; a gradient step where the
\* second derivative is not positive
NewtonStep(c, pt, t) ==
    LET res == RSub(Position(c, t), pt)
        d1 == RMul(res, Derivative(c, t))
        d2 == RAdd(RMul(Derivative(c, t), Derivative(c, t)),
                   RMul(res, SecondDerivative(c, t)))
    IN  IF RGt(d2, Zero) THEN RDiv(d1, d2) ELSE d1

NextIterate(c, pt, t, lo, hi) == Clamp(Round(RSub(t, NewtonStep(c, pt, t))), lo, hi)

\* the step from t is below the threshold
SmallStep(c, pt, t, lo, hi) ==
    RLe(fabs(RSub(NextIterate(c, pt, t, lo, hi), t)), StepTolerance)

\* the closer of two parameters, the first on a tie
Closer(c, pt, s, t) == IF RGt(Distance(c, pt, s), Distance(c, pt, t)) THEN t ELSE s

\* the coarse sampling pass: the best of NumSamples + 1 equidistant parameters
RECURSIVE BestSample(_, _, _, _, _)
BestSample(c, pt, lo, hi, k) ==
    LET t == RAdd(lo, RMul(<<k, NumSamples>>, RSub(hi, lo)))
    IN  IF k = 0 THEN lo
        ELSE Closer(c, pt, BestSample(c, pt, lo, hi, k - 1), t)

\* the guesses a caller may pass: the declaration puts no condition on *seed,
\* so values on either side of the interval are among them
Seeds(lo, hi) == {RSub(lo, R(2)), RSub(lo, One), lo, RAdd(lo, One), hi, RAdd(hi, One)}

\* what the caller receives: clo_t, clo_pt, clo_dist
Outputs(c, pt, t) ==
    [clo_t |-> t, clo_pt |-> Position(c, t), clo_dist |-> Distance(c, pt, t)]

InitSearch ==
    /\ pc = "closestPoint"
    /\ n = 0
    /\ mat = <<>>
    /\ LUIdle
    /\ SubIdle
    /\ CGIdle
    /\ ProjIdle
    /\ cpstate = "start"
    /\ curve \in Curves
    /\ target \in Targets
    /\ \E iv \in Intervals : tmin = iv[1] /\ tmax = iv[2]
    /\ seed \in {<<>>} \cup {<<t>> : t \in Seeds(tmin, tmax)}
    /\ tcur = Zero
    /\ tbest = Zero
    /\ nsteps = 0
    /\ result = <<>>

\* a guess was passed: it is the first parameter of the search as it stands;
\* the specification clamps the steps of the iteration only
SeedGiven ==
    /\ cpstate = "start"
    /\ seed # <<>>
    /\ tcur' = seed[1]
    /\ tbest' = seed[1]
    /\ cpstate' = "seeded"
    /\ UNCHANGED <<curve, target, tmin, tmax, seed, nsteps, result>>
    /\ UNCHANGED <<varsLU, varsSub, varsCG, varsProj>>

\* seed = 0: the sampling pass chooses the start
SeedSampled ==
    /\ cpstate = "start"
    /\ seed = <<>>
    /\ tcur' = BestSample(curve, target, tmin, tmax, NumSamples)
    /\ tbest' = tcur'
    /\ cpstate' = "seeded"
    /\ UNCHANGED <<curve, target, tmin, tmax, seed, nsteps, result>>
    /\ UNCHANGED <<varsLU, varsSub, varsCG, varsProj>>

Refine ==
    /\ cpstate \in {"seeded", "searching"}
    /\ nsteps < MaxSteps
    /\ ~SmallStep(curve, target, tcur, tmin, tmax)
    /\ tcur' = NextIterate(curve, target, tcur, tmin, tmax)
    /\ tbest' = Closer(curve, target, tbest, tcur')
    /\ nsteps' = nsteps + 1
    /\ cpstate' = "searching"
    /\ UNCHANGED <<curve, target, tmin, tmax, seed, result>>
    /\ UNCHANGED <<varsLU, varsSub, varsCG, varsProj>>

Converge ==
    /\ cpstate \in {"seeded", "searching"}
    /\ SmallStep(curve, target, tcur, tmin, tmax)
    /\ tcur' = NextIterate(curve, target, tcur, tmin, tmax)
    /\ tbest' = Closer(curve, target, tbest, tcur')
    /\ result' = Outputs(curve, target, tcur')
    /\ cpstate' = "converged"
    /\ UNCHANGED <<curve, target, tmin, tmax, seed, nsteps>>
    /\ UNCHANGED <<varsLU, varsSub, varsCG, varsProj>>

Fail ==
    /\ cpstate \in {"seeded", "searching"}
    /\ nsteps >= MaxSteps
    /\ ~SmallStep(curve, target, tcur, tmin, tmax)
    /\ result' = Outputs(curve, target, tbest)
    /\ cpstate' = "failed"
    /\ UNCHANGED <<curve, target, tmin, tmax, seed, tcur, tbest, nsteps>>
    /\ UNCHANGED <<varsLU, varsSub, varsCG, varsProj>>

NextSearch ==
    \/ SeedGiven
    \/ SeedSampled
    \/ Refine
    \/ Converge
    \/ Fail

SpecSearch == InitSearch /\ [][NextSearch]_vars

-----------------------------------------------------------------------------
(* ProjectCurveAndCrossTan (copyright.h): the curve set of the projection  *)
(* of a space curve and its cross tangent curve on a surface.  The header  *)
(* declares the members and documents the sizes of what they return; the   *)
(* bodies follow the specification.  The surface is the plane              *)
(* S(u, v) = (u, v, 0) over a rectangle, the curves are straight lines     *)
(* p + t * d with integer coordinates, so that the closest point of the    *)
(* surface is found by clamping.                                           *)

MaxDers == 2

\* the parameter domain of surf_ and the part of it that may be asked for
SurfaceDomain == [umin |-> 0, umax |-> 4, vmin |-> 0, vmax |-> 4]
InnerDomain == [umin |-> 1, umax |-> 3, vmin |-> 1, vmax |-> 3]

\* curves p + t * d over start() = 0 .. end() = 2
Lines ==
    [ along |-> [p |-> <<0, 1, 1>>, d |-> <<2, 0, 0>>],
      across |-> [p |-> <<3, 3, 2>>, d |-> <<1, 1, -1>>],
      lift |-> [p |-> <<0, 1, 1>>, d |-> <<0, 0, 1>>],
      turn |-> [p |-> <<1, 0, 2>>, d |-> <<-1, 2, 0>>] ]
SpaceCurves == {"along", "across"}
CrossTangentCurves == {"lift", "turn"}
StartParameter == 0
EndParameter == 2

\* SplineCurve::point: derivative number k of the curve at t
CurveDer(c, t, k) ==
    IF k = 0 THEN [i \in 1 .. 3 |-> Lines[c].p[i] + t * Lines[c].d[i]]
    ELSE IF k = 1 THEN Lines[c].d
    ELSE <<0, 0, 0>>

ConsideredDomain == IF domain_of_interest_ = <<>> THEN SurfaceDomain ELSE domain_of_interest_
ClampInt(x, lo, hi) == IF x < lo THEN lo ELSE IF x > hi THEN hi ELSE x

\* the parameter point of the surface point closest to X
ClosestParameter(X) ==
    << ClampInt(X[1], ConsideredDomain.umin, ConsideredDomain.umax),
       ClampInt(X[2], ConsideredDomain.vmin, ConsideredDomain.vmax) >>

\* SplineSurface::point
SurfacePoint(par) == <<par[1], par[2], 0>>

\* derivative number k >= 1 of the parameter point: a clamped coordinate stands
InDomain(x, lo, hi) == lo < x /\ x < hi
ParameterDer(c, t, k) ==
    LET X == CurveDer(c, t, 0)
        D == CurveDer(c, t, k)
    IN  << IF InDomain(X[1], ConsideredDomain.umin, ConsideredDomain.umax) THEN D[1] ELSE 0,
           IF InDomain(X[2], ConsideredDomain.vmin, ConsideredDomain.vmax) THEN D[2] ELSE 0 >>

\* the parameter point of the projection at t: a required end point wins
ParameterPoint(t) ==
    IF t = StartParameter /\ start_par_pt_ # <<>> THEN start_par_pt_
    ELSE IF t = EndParameter /\ end_par_pt_ # <<>> THEN end_par_pt_
    ELSE ClosestParameter(CurveDer(space_crv_, t, 0))

\* a vector projected on the tangent plane of the surface
TangentPlane(v) == <<v[1], v[2], 0>>

\* eval(t)
eval(t) ==
    << ParameterPoint(t),
       SurfacePoint(ParameterPoint(t)),
       TangentPlane(CurveDer(crosstan_crv_, t, 0)) >>

\* the positions 1 .. n+1 of the derivatives 0 .. n
UpTo(k) == 1 .. (k + 1)

\* eval(t, n, ders)
evalDers(t, k) ==
    << [i \in UpTo(k) |-> IF i = 1 THEN eval(t)[1] ELSE ParameterDer(space_crv_, t, i - 1)],
       [i \in UpTo(k) |-> IF i = 1 THEN eval(t)[2]
                          ELSE SurfacePoint(ParameterDer(space_crv_, t, i - 1))],
       [i \in UpTo(k) |-> IF i = 1 THEN eval(t)[3]
                          ELSE TangentPlane(CurveDer(crosstan_crv_, t, i - 1))] >>

\* nmbCvs()
nmbCvs == 3

InitProject ==
    /\ pc = "ProjectCurveAndCrossTan"
    /\ n = 0
    /\ mat = <<>>
    /\ LUIdle
    /\ SubIdle
    /\ CGIdle
    /\ cpstate = "idle"
    /\ curve = "none"
    /\ target = Zero
    /\ tmin = Zero
    /\ tmax = Zero
    /\ seed = <<>>
    /\ tcur = Zero
    /\ tbest = Zero
    /\ nsteps = 0
    /\ result = <<>>
    /\ space_crv_ \in SpaceCurves
    /\ crosstan_crv_ \in CrossTangentCurves
    /\ start_par_pt_ \in {<<>>, <<2, 2>>}
    /\ end_par_pt_ \in {<<>>, <<3, 1>>}
    /\ domain_of_interest_ \in {<<>>, InnerDomain}
    /\ projop = "none"
    /\ projarg = <<>>
    /\ projout = <<>>
    /\ projcalls = 0

ProjCall(op) ==
    /\ pc = "ProjectCurveAndCrossTan"
    /\ projcalls < MaxCalls
    /\ projop' = op
    /\ projcalls' = projcalls + 1
    /\ UNCHANGED <<space_crv_, crosstan_crv_, start_par_pt_, end_par_pt_,
                   domain_of_interest_>>
    /\ UNCHANGED <<varsLU, varsSub, varsCG, varsCP>>

CallEval ==
    /\ ProjCall("eval")
    /\ \E t \in StartParameter .. EndParameter :
          /\ projarg' = <<t>>
          /\ projout' = eval(t)

CallEvalDers ==
    /\ ProjCall("evalDers")
    /\ \E t \in StartParameter .. EndParameter : \E k \in 0 .. MaxDers :
          /\ projarg' = <<t, k>>
          /\ projout' = evalDers(t, k)

CallNmbCvs ==
    /\ ProjCall("nmbCvs")
    /\ projarg' = <<>>
    /\ projout' = nmbCvs

NextProject ==
    \/ CallEval
    \/ CallEvalDers
    \/ CallNmbCvs

SpecProject == InitProject /\ [][NextProject]_vars

-----------------------------------------------------------------------------
(* Notions the contracts are stated with. *)

\* LUDecomp has returned to LUsolveSystem
Returned == pc \in {"permute", "forward", "backward", "done", "returned"}

\* L: strict lower triangle of m with a unit diagonal; U: upper triangle of m
LowerUnit(m, i, k) == IF k < i THEN m[i][k] ELSE IF k = i THEN One ELSE Zero
Upper(m, k, jj) == IF jj >= k THEN m[k][jj] ELSE Zero

RECURSIVE ProductSum(_, _, _, _, _)
ProductSum(m, i, jj, k, nn) ==
    IF k >= nn THEN Zero
    ELSE RAdd(RMul(LowerUnit(m, i, k), Upper(m, k, jj)),
              ProductSum(m, i, jj, k + 1, nn))

\* (L*U)[i][jj]
LUProduct(m, i, jj, nn) == ProductSum(m, i, jj, 0, nn)

\* (M*x)[i]
RECURSIVE DotSum(_, _, _, _, _)
DotSum(M, x, i, k, nn) ==
    IF k >= nn THEN Zero
    ELSE RAdd(RMul(M[i][k], x[k]), DotSum(M, x, i, k + 1, nn))

MatVec(M, x, i, nn) == DotSum(M, x, i, 0, nn)

\* determinant, expanded along the rows r, r+1, ... over the columns left in C
RECURSIVE Minor(_, _, _, _)
RECURSIVE MinorSum(_, _, _, _, _)
MinorSum(M, r, C, todo, nn) ==
    IF todo = {} THEN Zero
    ELSE LET c == CHOOSE e \in todo : TRUE
             before == Cardinality({e \in C : e < c})
             term == RMul(M[r][c], Minor(M, r + 1, C \ {c}, nn))
         IN  RAdd(IF before % 2 = 0 THEN term ELSE RSub(Zero, term),
                  MinorSum(M, r, C, todo \ {c}, nn))
Minor(M, r, C, nn) == IF r >= nn THEN One ELSE MinorSum(M, r, C, C, nn)

Det(M, nn) == Minor(M, 0, Rows(nn), nn)

\* product of the diagonal entries
RECURSIVE DiagProduct(_, _, _)
DiagProduct(m, k, nn) ==
    IF k >= nn THEN One ELSE RMul(m[k][k], DiagProduct(m, k + 1, nn))

\* some row of M is entirely zero
SomeZeroRow(M, nn) == \E i \in Rows(nn) : \A k \in Rows(nn) : M[i][k] = Zero

\* |M[i][k]| largest over the row i
LargestAbs(M, i, nn) ==
    CHOOSE v \in {fabs(M[i][k]) : k \in Rows(nn)} :
        \A k \in Rows(nn) : ~RGt(fabs(M[i][k]), v)

IsPermutation(p, nn) ==
    /\ DOMAIN p = Rows(nn)
    /\ \A k \in Rows(nn) : Cardinality({i \in Rows(nn) : p[i] = k}) = 1

-----------------------------------------------------------------------------
(* C1: once LUDecomp has returned, L*U (L the strict lower triangle of mat *)
(* with a unit diagonal, U the upper triangle) equals the row-permuted     *)
(* input: (L*U)[i][jj] = A[perm[i]][jj] for all i, jj.                     *)
C1_LUEqualsPermutedInput ==
    Returned =>
        \A i \in Rows(n) : \A jj \in Rows(n) :
            /\ perm[i] \in Rows(n)
            /\ LUProduct(mat, i, jj, n) = A0[perm[i]][jj]

(* C2: when LUsolveSystem is done, the original A times the vector left in *)
(* vec equals the original right-hand side b.                              *)
C2_SolveRoundTrip ==
    pc = "done" => \A i \in Rows(n) : MatVec(A0, vec, i, n) = b0[i]

(* C3: an input with an all-zero row fails with the null-row error before  *)
(* any elimination or pivoting step: no column is ever processed, and when *)
(* the error is signalled mat is unmodified and no rows were exchanged.    *)
C3_NullRowBeforePivoting ==
    SomeZeroRow(A0, n) =>
        /\ pc \in {"fill", "scale", "error"}
        /\ pc = "error" =>
              /\ err = "NullRow"
              /\ mat = A0
              /\ nswaps = 0
              /\ rowOf = [i \in Rows(n) |-> i]
C3_Witness ==
    /\ pc = "error"
    /\ err = "NullRow"
    /\ n = 3
    /\ SomeZeroRow(A0, n)
    /\ \E i \in Rows(n) : ~(\A k \in Rows(n) : A0[i][k] = Zero)

(* C4: LUDecomp signals an error exactly when the input has an all-zero    *)
(* row or, at some column j, every candidate entry of column j in rows     *)
(* j..n-1 is zero after elimination; it fails for every singular matrix    *)
(* and for no nonsingular one, and a nonzero candidate is never rejected.  *)
C4_FailsIffSingular ==
    /\ err = "NullRow" => SomeZeroRow(A0, n)
    /\ err = "Singular" =>
          /\ ~SomeZeroRow(A0, n)
          /\ \A i \in j .. (n - 1) : mat[i][j] = Zero
    /\ pc = "error" => err \in {"NullRow", "Singular"} /\ Det(A0, n) = Zero
    /\ pc # "error" => err = "none"
    /\ Returned => Det(A0, n) # Zero
    /\ pc = "scale" /\ ~SomeZeroRow(A0, n) => ~ENABLED ScaleThrow
    /\ pc = "pivot" /\ (\E i \in j .. (n - 1) : mat[i][j] # Zero) =>
          /\ mat[pivot_row][j] # Zero
          /\ ~ENABLED PivotThrow
C4_Witness ==
    /\ pc = "error"
    /\ err = "Singular"
    /\ n = 3
    /\ j = 2
    /\ nswaps > 0

(* C5: at every column j the pivot row chosen among rows j..n-1 maximizes  *)
(* |entry[i][j] * scaling[i]|, scaling[i] being the reciprocal of the      *)
(* largest absolute entry of the input row that sits at position i; among  *)
(* the rows that attain the maximum the lowest index is chosen.            *)
ScaledEntry(i) == RDiv(fabs(mat[i][j]), LargestAbs(A0, rowOf[i], n))
C5_ScaledPivotChoice ==
    pc = "pivot" =>
        /\ pivot_row \in j .. (n - 1)
        /\ \A i \in j .. (n - 1) :
              /\ ~RGt(ScaledEntry(i), ScaledEntry(pivot_row))
              /\ ScaledEntry(i) = ScaledEntry(pivot_row) => pivot_row <= i
\* a tie between a scaled-up row and a later row, and the unscaled largest
\* entry is not on the chosen row
C5_Witness ==
    /\ pc = "pivot"
    /\ n = 3
    /\ j = 1
    /\ nswaps = 1
    /\ pivot_row = 1
    /\ ScaledEntry(2) = ScaledEntry(1)
    /\ RGt(fabs(mat[2][j]), fabs(mat[1][j]))

(* C6: rows j and pivot_row are exchanged over all n columns exactly when  *)
(* pivot_row # j, the parity flag is toggled once per exchange and never   *)
(* otherwise; on return parity is true iff the number of exchanges is even.*)
C6_SwapAction ==
    (pc = "pivot" /\ pc' = "divide") =>
        IF pivot_row # j
        THEN /\ \A k \in Rows(n) :
                    /\ mat'[j][k] = mat[pivot_row][k]
                    /\ mat'[pivot_row][k] = mat[j][k]
             /\ \A i \in Rows(n) \ {j, pivot_row} : mat'[i] = mat[i]
             /\ parity' = ~parity
             /\ nswaps' = nswaps + 1
        ELSE /\ mat' = mat
             /\ parity' = parity
             /\ nswaps' = nswaps
C6_NoOtherToggle ==
    /\ nswaps' # nswaps => pc = "pivot" /\ pivot_row # j
    /\ parity' # parity =>
          \/ pc = "fill" /\ parity'
          \/ pc = "pivot" /\ pivot_row # j
C6_ParityCountsSwaps ==
    /\ [][C6_SwapAction /\ C6_NoOtherToggle]_vars
    /\ [](Returned => (parity <=> nswaps % 2 = 0))
\* two exchanges, the second one of rows that differ left of the pivot column
C6_Witness ==
    /\ Returned
    /\ n = 3
    /\ nswaps = 2
    /\ parity
    /\ mat[1][0] # mat[2][0]

(* C7: for a nonsingular input the sign of det(A) equals the sign of the   *)
(* product of the diagonal of the decomposed matrix, times +1 when the     *)
(* returned parity is true and -1 when it is false.                        *)
C7_DeterminantSign ==
    Returned =>
        /\ Det(A0, n) # Zero
        /\ RSign(Det(A0, n)) =
              RSign(DiagProduct(mat, 0, n)) * (IF parity THEN 1 ELSE -1)
C7_Witness ==
    /\ Returned
    /\ n = 3
    /\ ~parity
    /\ RSign(Det(A0, n)) = 1
    /\ RSign(DiagProduct(mat, 0, n)) = -1

(* C8: after a successful LUDecomp perm[0..n-1] is a permutation of        *)
(* 0..n-1, and the row at position i of the decomposed matrix originates   *)
(* from row perm[i] of the input.                                          *)
C8_PermRecordsRowOrder ==
    Returned =>
        /\ IsPermutation(perm, n)
        /\ \A i \in Rows(n) : perm[i] = rowOf[i]

(* C9: LUsolveSystem runs decomposition, permutation, forward and backward *)
(* substitution in this order; between the permutation and the forward     *)
(* substitution vec[i] is the original right-hand-side entry at index      *)
(* perm[i], and each original entry appears exactly once.                  *)
C9_PermutedRhsThenSubstitution ==
    /\ \E k \in 0 .. 4 :
          steps = SubSeq(<<"decomp", "permute", "forward", "backward">>, 1, k)
    /\ pc = "forward" =>
          /\ steps = <<"decomp", "permute">>
          /\ \A i \in Rows(n) : vec[i] = b0[perm[i]]
          /\ \A k \in Rows(n) : Cardinality({i \in Rows(n) : perm[i] = k}) = 1

(* C10: for every component dd the vector-valued forwardSubstitution and   *)
(* backwardSubstitution leave in component dd exactly what the scalar      *)
(* forwardSubstitution / backwardSubstitution produce on the right-hand    *)
(* side made of component dd alone.                                        *)
Component(x, dd) == [i \in Rows(n) |-> x[i][dd]]
C10_VectorEqualsScalarPerComponent ==
    \A dd \in Rows(Dim(xvec)) :
        /\ lastop = "forward" =>
              Component(xvec, dd) =
                  forwardSubstitution(mat, Component(xprev, dd), n)
        /\ lastop = "backward" =>
              Component(xvec, dd) =
                  backwardSubstitution(mat, Component(xprev, dd), n)
C10_Witness ==
    /\ pc = "sub"
    /\ n = 3
    /\ calls = 2
    /\ lastop = "backward"
    /\ Dim(xvec) = 2
    /\ Component(xprev, 0) # Component(xprev, 1)
    /\ xvec # xprev

(* C17: before the scaling and elimination phases LUDecomp has filled perm *)
(* with the identity: perm[k] = k for every k in 0..n-1, each of the n     *)
(* slots is written and no slot outside perm[0..n-1] is written.           *)
C17_PermFilledWithIdentity ==
    pc # "fill" =>
        /\ permWrites = Rows(n)
        /\ pc = "scale" => \A k \in Rows(n) : perm[k] = k

(* C18: forwardSubstitution solves the unit-lower-triangular system, reads *)
(* only A[i][k] with k < i, leaves x[0] as it is and never divides;        *)
(* backwardSubstitution solves the upper-triangular system, reads only     *)
(* A[i][k] with k >= i and divides by the diagonal; neither modifies A;    *)
(* forward then backward applied to y yield x with L*U*x = y.              *)
\* m with the entries (i, k), k >= i, overwritten
UpperOverwritten(m) ==
    [i \in Rows(n) |-> [k \in Rows(n) |-> IF k >= i THEN R(7) ELSE m[i][k]]]
\* m with the entries (i, k), k < i, overwritten
LowerOverwritten(m) ==
    [i \in Rows(n) |-> [k \in Rows(n) |-> IF k < i THEN R(7) ELSE m[i][k]]]
RECURSIVE LowerDot(_, _, _, _)
LowerDot(m, x, i, k) ==
    IF k >= n THEN Zero
    ELSE RAdd(RMul(LowerUnit(m, i, k), x[k]), LowerDot(m, x, i, k + 1))
RECURSIVE UpperDot(_, _, _, _)
UpperDot(m, x, i, k) ==
    IF k >= n THEN Zero
    ELSE RAdd(RMul(Upper(m, i, k), x[k]), UpperDot(m, x, i, k + 1))
RECURSIVE LUDot(_, _, _, _)
LUDot(m, x, i, k) ==
    IF k >= n THEN Zero
    ELSE RAdd(RMul(LUProduct(m, i, k, n), x[k]), LUDot(m, x, i, k + 1))
C18_TriangularSolves ==
    /\ mat = A0
    /\ steps = <<"forward">> =>
          /\ vec[0] = b0[0]
          /\ \A i \in Rows(n) : vec[i][2] = 1
          /\ \A i \in Rows(n) : LowerDot(mat, vec, i, 0) = b0[i]
          /\ vec = forwardSubstitution(UpperOverwritten(mat), b0, n)
    /\ steps = <<"backward">> =>
          /\ \A i \in Rows(n) : UpperDot(mat, vec, i, 0) = b0[i]
          /\ vec = backwardSubstitution(LowerOverwritten(mat), b0, n)
    /\ steps = <<"forward", "backward">> =>
          \A i \in Rows(n) : LUDot(mat, vec, i, 0) = b0[i]
C18_Witness ==
    /\ pc = "scalar"
    /\ steps = <<"forward", "backward">>
    /\ n = 3
    /\ vec[0][2] > 1
    /\ \E i \in Rows(n) : \E k \in Rows(n) : i # k /\ mat[i][k] # mat[k][i]

(* C19: for n = 1 with a nonzero entry a LUDecomp leaves the matrix as it  *)
(* is, returns perm = [0] and parity = true and exchanges no rows, and     *)
(* LUsolveSystem replaces the right-hand-side entry b by b / a; for n = 1  *)
(* with a = 0 the null-row error is signalled.                             *)
C19_SizeOne ==
    n = 1 =>
        /\ Returned =>
              /\ A0[0][0] # Zero
              /\ mat = A0
              /\ perm = [i \in Rows(1) |-> 0]
              /\ parity
              /\ nswaps = 0
        /\ pc = "done" => vec[0] = RDiv(b0[0], A0[0][0])
        /\ pc = "error" => err = "NullRow" /\ A0[0][0] = Zero
        /\ A0[0][0] = Zero => pc \in {"fill", "scale", "error"}

(* C13: matrixProduct leaves in sy the product A*sx of the stored matrix:  *)
(* sy[k] is the sum of A_[ki] * sx[jcol_[ki]] over the slots of row k,     *)
(* whatever sy held before and whatever the order of the slots of a row;   *)
(* A_, irow_, jcol_ and sx are as they were.                               *)
\* the entry (ki, kj) of the stored matrix: the sum of the slots of row ki in column kj
RECURSIVE StoredEntry(_, _, _, _)
StoredEntry(ki, kj, s, kend) ==
    IF s >= kend THEN Zero
    ELSE RAdd(IF jcol_[s] = kj THEN A_[s] ELSE Zero, StoredEntry(ki, kj, s + 1, kend))
StorageHolds(m) ==
    /\ nn_ = Size(m)
    /\ DOMAIN irow_ = 0 .. nn_
    /\ np_ = irow_[nn_]
    /\ \A ki \in Rows(nn_) : \A kj \in Rows(nn_) :
          StoredEntry(ki, kj, irow_[ki], irow_[ki + 1]) = m[ki][kj]
RECURSIVE DenseDot(_, _, _, _)
DenseDot(m, x, ki, kj) ==
    IF kj >= Size(m) THEN Zero
    ELSE RAdd(RMul(m[ki][kj], x[kj]), DenseDot(m, x, ki, kj + 1))
C13_MatrixProduct ==
    pc = "matrixProduct" =>
        /\ StorageHolds(gmat)
        /\ cgop = "matrixProduct" =>
              /\ DOMAIN sy = Rows(nn_)
              /\ \A k \in Rows(nn_) : sy[k] = DenseDot(gmat, sx, k, 0)
C13_Witness ==
    /\ pc = "matrixProduct"
    /\ cgop = "matrixProduct"
    /\ nn_ = 2
    /\ syold[0] = Junk
    /\ irow_[1] = 2
    /\ jcol_[0] > jcol_[1]
    /\ sy[0] # Zero
    /\ irow_[2] = 2

(* C11: solve returns 0 only when the residual passed the convergence      *)
(* test, 1 when the iteration limit was reached without convergence (the   *)
(* last iterate is written back to ex), a negative value exactly for a     *)
(* size different from the attached system, no attached matrix or a        *)
(* singular pivot in the factors; the number of iterations never exceeds   *)
(* the configured maximum.                                                 *)
RECURSIVE ResidualSquares(_)
ResidualSquares(i) ==
    IF i >= nn_ THEN Zero
    ELSE LET d == RSub(eb[i], DenseDot(gmat, ex, i, 0))
         IN  RAdd(RMul(d, d), ResidualSquares(i + 1))
RECURSIVE RightSideSquares(_)
RightSideSquares(i) ==
    IF i >= nn_ THEN Zero ELSE RAdd(RMul(eb[i], eb[i]), RightSideSquares(i + 1))
Converged == WithinTolerance(ResidualSquares(0), RightSideSquares(0), tolerance_)
StructuralError ==
    \/ nn_ = 0
    \/ Size(eb) # nn_
    \/ M_ # <<>> /\ SingularPivot(M_)
C14_FailedIsFlagged ==
    pc = "closestPoint" =>
        /\ nsteps <= MaxSteps
        /\ result # <<>> <=> cpstate \in {"converged", "failed"}
        /\ cpstate = "failed" =>
              /\ result.clo_t = tbest
              /\ "converged" \in DOMAIN result
              /\ result.converged = FALSE

(* C15: with or without a seed the returned clo_t lies in [tmin, tmax],    *)
(* as does every iterate; clo_pt is the curve position at clo_t and        *)
(* clo_dist the distance from the target point to clo_pt.                  *)
InInterval(t) == RLe(tmin, t) /\ RLe(t, tmax)
C15_Iterates ==
    /\ cpstate \in {"seeded", "searching", "converged", "failed"} =>
          InInterval(tcur) /\ InInterval(tbest)
    /\ cpstate \in {"converged", "failed"} =>
          /\ InInterval(result.clo_t)
          /\ result.clo_pt = Position(curve, result.clo_t)
          /\ result.clo_dist = fabs(RSub(target, result.clo_pt))
SeedInside == seed = <<>> \/ InInterval(seed[1])
C21_ScaleOfRow(i) ==
    /\ perm[i] \in Rows(n)
    /\ perm[i] = rowOf[i]
    /\ scaling[i] = RDiv(One, LargestAbs(A0, perm[i], n))
C21_ScalingFollowsRows ==
    pc = "column" => \A i \in Rows(n) : C21_ScaleOfRow(i)
\* the scale factors do follow the rows when the position is read off rowOf
C21_ScalingFollowsRowOf ==
    pc = "column" =>
        \A i \in Rows(n) : scaling[i] = RDiv(One, LargestAbs(A0, rowOf[i], n))

(* C22: when the decomposition inside LUsolveSystem fails, with a null row *)
(* or an exact-zero pivot, vec still holds its input value and neither the *)
(* permutation nor a substitution has run; LUDecomp is entered once, never *)
(* a second time, and the failure is final.                                *)
C22_FailedState ==
    pc = "error" =>
        /\ vec = b0
        /\ steps = <<>>
        /\ err \in {"NullRow", "Singular"}
        /\ err = "NullRow" => SomeZeroRow(mat, n) /\ mat = A0
        /\ err = "Singular" => mat[pivot_row][j] = Zero
C22_NoRetry ==
    /\ pc' # "fill"
    /\ pc = "error" => pc' = "error"
C22_ErrorPropagates ==
    /\ [](entry = "LUsolveSystem" => C22_FailedState)
    /\ [][entry = "LUsolveSystem" => C22_NoRetry]_vars
\* a zero pivot met in a later column, after rows were exchanged
C22_Witness ==
    /\ entry = "LUsolveSystem"
    /\ pc = "error"
    /\ err = "Singular"
    /\ n = 3
    /\ nswaps >= 1
    /\ mat # A0
    /\ vec = b0

====
